---- MODULE Spec2Model ----
(***************************************************************************)
(* A model of ginst.py: the interactive gcc version selection              *)
(* (GccVersion.selectGccVersion), the construction of the installer        *)
(* (GInst.__init__) and the two build pipelines (GInst.install and         *)
(* GInst.installFromFolder).                                               *)
(*                                                                         *)
(* Strings are sequences of tokens; a version string is a sequence of      *)
(* one-character tokens so that the listing regular expression and int()   *)
(* are computed on the characters.  An external command is represented by  *)
(* the exit code it returns (SystemCall.retCode), drawn from ExitCodes.    *)
(* The loop of SystemCall._execute is followed step by step for a single   *)
(* command in ExecSpec; the pipe hands over text lines, as the             *)
(* rstrip(os.linesep) of the loop requires.                                *)
(***************************************************************************)
EXTENDS Integers, Sequences, FiniteSets, TLC

\* ---------------------------------------------------------------- bounds
MaxListing == 2
MaxPrompts == 3
MaxExit == 1
MaxCpu == 2

ExitCodes == 0..MaxExit
CpuCounts == 1..MaxCpu

\* ------------------------------------------------------ module constants
THIS_FOLDER == <<"THIS_FOLDER">>

GCC_LOCAL_COMPRESSED_SOURCE_PATH == THIS_FOLDER \o <<"/gcc.tar.gz">>

GCC_SOURCE_URL(v) ==
    <<"http://ftpmirror.gnu.org/gcc/gcc-">> \o v \o <<"/gcc-">> \o v \o <<".tar.gz">>

GCC_FTP_VERSION_FOLDER == "gnu/gcc"

Digits == {"0", "1", "2", "3", "4", "5", "6", "7", "8", "9"}

\* GCC_FTP_REGEX applied to the tail that follows "gnu/gcc" "/gcc-":
\* (\d?\.\d*\.\d*)$ : at most one digit, a dot, digits, a dot, digits, end.
TailMatches(t) ==
    LET s == IF Len(t) >= 1 /\ t[1] \in Digits THEN 2 ELSE 1
    IN  /\ Len(t) >= s
        /\ t[s] = "."
        /\ Cardinality({i \in (s + 1)..Len(t) : t[i] = "."}) = 1
        /\ \A i \in (s + 1)..Len(t) : t[i] \in Digits \cup {"."}

\* re.findall(GCC_FTP_REGEX, i): the captured groups of the matches of i
GCC_FTP_REGEX(e) ==
    LET starts == {i \in 1..(Len(e) - 1) :
                      /\ e[i] = GCC_FTP_VERSION_FOLDER
                      /\ e[i + 1] = "/gcc-"
                      /\ TailMatches(SubSeq(e, i + 2, Len(e)))}
    IN  IF starts = {} THEN <<>>
        ELSE LET i == CHOOSE j \in starts : \A k \in starts : j <= k
             IN  <<SubSeq(e, i + 2, Len(e))>>

\* ------------------------------------------------------------ the inputs
V485 == <<"4", ".", "8", ".", "5">>
V930 == <<"9", ".", "3", ".", "0">>
V1220 == <<"1", "2", ".", "2", ".", "0">>

\* entries that f.nlst('gnu/gcc') can return
Entries ==
    { <<"gnu/gcc", "/gcc-">> \o V485,
      <<"gnu/gcc", "/gcc-">> \o V930,
      <<"gnu/gcc", "/gcc-">> \o V1220,
      <<"gnu/gcc", "/libstdc++">> }

RECURSIVE SeqsUpTo(_, _)
SeqsUpTo(S, n) ==
    IF n = 0 THEN {<<>>}
    ELSE LET shorter == SeqsUpTo(S, n - 1)
         IN  shorter \cup {Append(s, x) : s \in {t \in shorter : Len(t) = n - 1}, x \in S}

Listings == SeqsUpTo(Entries, MaxListing)

\* what raw_input can deliver: a line, or a KeyboardInterrupt
Interrupt == <<"^C">>
Lines ==
    { <<"q">>, <<"0">>, <<"1">>, <<"2">>, <<"3">>, <<"4">>, <<"-", "1">>, <<"-", "2">>,
      <<"-", "5">>, <<"x">>, <<>> }

NoAttr == [rawVersionString |-> <<"<unset>">>, extraConfigureArgs |-> <<"<unset>">>]
None == <<"None">>
NoArg == [type |-> "None", versionString |-> None, extraConfigureArgs |-> <<>>]

\* the arguments GInst(...) is constructed with
CliVersions == {V485, V1220}
ExtraArgs == {<<>>, <<"--disable-nls">>}

\* ---------------------------------------------------------- GccVersion
GccVersion(versionString, extraConfigureArgs) ==
    [rawVersionString |-> versionString, extraConfigureArgs |-> extraConfigureArgs]

\* a version string, or a GccVersion object built by the caller
BindArgs ==
    {[type |-> "str", versionString |-> v, extraConfigureArgs |-> <<>>] : v \in CliVersions}
    \cup {[type |-> "GccVersion", versionString |-> v, extraConfigureArgs |-> x] :
             v \in CliVersions, x \in ExtraArgs}

RECURSIVE getPossibleGccVersionsFrom(_, _, _)
getPossibleGccVersionsFrom(lst, i, retList) ==
    IF i > Len(lst) THEN retList
    ELSE LET matches == GCC_FTP_REGEX(lst[i])
         IN  getPossibleGccVersionsFrom(lst, i + 1,
                 IF matches # <<>> THEN Append(retList, matches[1]) ELSE retList)

getPossibleGccVersions(lst) == getPossibleGccVersionsFrom(lst, 1, <<>>)

DigitVal(c) ==
    CASE c = "0" -> 0 [] c = "1" -> 1 [] c = "2" -> 2 [] c = "3" -> 3 [] c = "4" -> 4
      [] c = "5" -> 5 [] c = "6" -> 6 [] c = "7" -> 7 [] c = "8" -> 8 [] c = "9" -> 9

RECURSIVE DigitsVal(_, _)
DigitsVal(s, acc) ==
    IF s = <<>> THEN acc ELSE DigitsVal(Tail(s), 10 * acc + DigitVal(Head(s)))

\* int(choice): the line is an optionally signed run of digits, else ValueError
IsInt(s) ==
    LET body == IF Len(s) >= 1 /\ s[1] \in {"-", "+"} THEN Tail(s) ELSE s
    IN  /\ body # <<>>
        /\ \A i \in 1..Len(body) : body[i] \in Digits

int(s) ==
    IF s[1] = "-" THEN 0 - DigitsVal(Tail(s), 0)
    ELSE IF s[1] = "+" THEN DigitsVal(Tail(s), 0)
    ELSE DigitsVal(s, 0)

\* versions[i] of a Python list: a negative index counts from the end
PyIndexOk(lst, i) == (0 - Len(lst)) <= i /\ i < Len(lst)
PyIndex(lst, i) == IF i >= 0 THEN lst[i + 1] ELSE lst[Len(lst) + i + 1]

\* the except clause of the prompt loop: "except Exception" catches neither
\* SystemExit nor KeyboardInterrupt; what it catches it drops
IsException(ex) == ex \notin {"SystemExit", "KeyboardInterrupt"}

PropagatesAll(ex) == TRUE
PropagatesNone(ex) == FALSE
Propagates(ex) == ~IsException(ex) \/ ex \in {"SystemExit", "KeyboardInterrupt"}

IndexAtChoice(vs, c) == int(c)

\* the index selectGccVersion reads for an accepted choice
ChoiceIndex(vs, c) == int(c) - 1

\* one iteration of the while loop of selectGccVersion on one raw_input
\* result; idx is the loop variable left by the menu loop (unbound when
\* the listing produced no version)
selectIteration(vs, c) ==
    LET raised(ex) == IF Propagates(ex) THEN [kind |-> "raise", ex |-> ex, value |-> None]
                      ELSE [kind |-> "again", ex |-> ex, value |-> None]
    IN  IF c = Interrupt THEN raised("KeyboardInterrupt")
        ELSE IF c = <<"q">> THEN raised("SystemExit")
        ELSE IF ~IsInt(c) THEN raised("ValueError")
        ELSE IF vs = <<>> THEN raised("UnboundLocalError")
        ELSE IF int(c) <= Len(vs)
             THEN IF PyIndexOk(vs, ChoiceIndex(vs, c))
                  THEN [kind |-> "return", ex |-> "none", value |-> PyIndex(vs, ChoiceIndex(vs, c))]
                  ELSE raised("IndexError")
        ELSE [kind |-> "again", ex |-> "none", value |-> None]

\* ---------------------------------------------------------- SystemCall
\* a finished SystemCall: the command, its exit code and where it ran
SystemCall(call, cmd, rc, dir) == [call |-> call, cmd |-> cmd, retCode |-> rc, cwd |-> dir]

succeededNonNegative(sc) == sc.retCode >= 0

succeeded(sc) == sc.retCode = 0

failed(sc) == ~succeeded(sc)

hasRoot(rc, dir) == SystemCall("hasRoot", <<"ls /root">>, rc, dir)

\* ------------------------------------------- GccVersion derived strings
getSourceUrl(gv) == GCC_SOURCE_URL(gv.rawVersionString)

getLocalUncompressedSourcePath(gv) == THIS_FOLDER \o <<"/gcc-">> \o gv.rawVersionString

getLocalBuildPath(gv) == getLocalUncompressedSourcePath(gv) \o <<"/build">>

getConfigureCommandUsrLocal(gv, root) ==
    getLocalUncompressedSourcePath(gv)
        \o <<"/configure -v --with-system-zlib", " --build=x86_64-linux-gnu",
             " --host=x86_64-linux-gnu", " --target=x86_64-linux-gnu", " --prefix=">>
        \o <<"/usr/local/">> \o <<"gcc-">> \o gv.rawVersionString
        \o <<" --enable-checking=release", " --enable-languages=c,c++", " --enable-multilib",
             " --program-suffix=", "-">>
        \o gv.rawVersionString \o <<" ">> \o gv.extraConfigureArgs

getConfigureCommandWithoutExtra(gv, root) ==
    LET prefix == IF succeeded(root) THEN <<"/usr/local/">> ELSE <<"~/">>
    IN  getLocalUncompressedSourcePath(gv)
        \o <<"/configure -v --with-system-zlib", " --build=x86_64-linux-gnu",
             " --host=x86_64-linux-gnu", " --target=x86_64-linux-gnu", " --prefix=">>
        \o prefix \o <<"gcc-">> \o gv.rawVersionString
        \o <<" --enable-checking=release", " --enable-languages=c,c++", " --enable-multilib",
             " --program-suffix=", "-">>
        \o gv.rawVersionString

getConfigureCommand(gv, root) ==
    LET prefix == IF succeeded(root) THEN <<"/usr/local/">> ELSE <<"~/">>
    IN  getLocalUncompressedSourcePath(gv)
        \o <<"/configure -v --with-system-zlib", " --build=x86_64-linux-gnu",
             " --host=x86_64-linux-gnu", " --target=x86_64-linux-gnu", " --prefix=">>
        \o prefix \o <<"gcc-">> \o gv.rawVersionString
        \o <<" --enable-checking=release", " --enable-languages=c,c++", " --enable-multilib",
             " --program-suffix=", "-">>
        \o gv.rawVersionString \o <<" ">> \o gv.extraConfigureArgs

\* ------------------------------------------------- GInst: the stages
\* A stage yields the SystemCalls it made, in order, and the error it
\* raised ("none" when it returned normally).
Returned(calls) == [calls |-> calls, err |-> "none"]
Raised(calls, err) == [calls |-> calls, err |-> err]

isAvailable(tool, rc, dir) == SystemCall("which", <<"which ", tool>>, rc, dir)

getGInstPreReqsWithoutRoot(r, u, i, dir) ==
    LET root == hasRoot(r, dir)
        update == SystemCall("aptUpdate", <<"apt-get update -y && apt-get upgrade -y">>, u, dir)
        inst == SystemCall("aptInstall", <<"apt-get install wget gcc g++ gcc-multilib g++-multilib build-essential libc6-dev zlib1g-dev flex bison texinfo automake -y">>, i, dir)
    IN  IF failed(update) THEN Raised(<<root, update>>, "Failed to apt-get update/upgrade")
        ELSE IF failed(inst) THEN Raised(<<root, update, inst>>, "Failed to get GInst prereqs")
        ELSE Returned(<<root, update, inst>>)

getGInstPreReqs(r, u, i, dir) ==
    LET root == hasRoot(r, dir)
        update == SystemCall("aptUpdate", <<"apt-get update -y && apt-get upgrade -y">>, u, dir)
        inst == SystemCall("aptInstall", <<"apt-get install wget gcc g++ gcc-multilib g++-multilib build-essential libc6-dev zlib1g-dev flex bison texinfo automake -y">>, i, dir)
    IN  IF succeeded(root)
        THEN IF failed(update) THEN Raised(<<root, update>>, "Failed to apt-get update/upgrade")
             ELSE IF failed(inst) THEN Raised(<<root, update, inst>>, "Failed to get GInst prereqs")
             ELSE Returned(<<root, update, inst>>)
        ELSE Returned(<<root>>)

RetriesFour == 5 - 1
RetriesSix == 5 + 1
Retries == 5

RECURSIVE wgetLoop(_, _, _, _, _)
wgetLoop(i, gv, outs, dir, calls) ==
    IF i > Retries THEN [calls |-> calls, fail |-> TRUE]
    ELSE LET sc == SystemCall("curl",
                       <<"curl", " -L ">> \o getSourceUrl(gv) \o <<" -k > ">>
                           \o GCC_LOCAL_COMPRESSED_SOURCE_PATH,
                       outs[i], dir)
         IN  IF succeeded(sc) THEN [calls |-> Append(calls, sc), fail |-> FALSE]
             ELSE wgetLoop(i + 1, gv, outs, dir, Append(calls, sc))

downloadSource(gv, w, outs, dir) ==
    LET which == isAvailable("wget", w, dir)
    IN  IF succeeded(which)
        THEN IF gv = NoAttr THEN Raised(<<which>>, "AttributeError")
             ELSE LET loop == wgetLoop(1, gv, outs, dir, <<which>>)
                  IN  IF loop.fail THEN Raised(loop.calls, "Failed to wget the gcc source")
                      ELSE Returned(loop.calls)
        ELSE Raised(<<which>>, "wget was unavailable to download the gcc source")

unCompressSource(rc, dir) ==
    LET tar == SystemCall("tar", <<"tar xf ">> \o GCC_LOCAL_COMPRESSED_SOURCE_PATH, rc, dir)
    IN  IF ~succeeded(tar) THEN Raised(<<tar>>, "Unable to untar gcc source")
        ELSE Returned(<<tar>>)

callDownloadPrereqsRaises(rc, dir) ==
    LET sc == SystemCall("prefetch", <<"contrib/download_prerequisites">>, rc, dir)
    IN  IF ~succeeded(sc) THEN Raised(<<sc>>, "Unable to download prereqs") ELSE Returned(<<sc>>)

callDownloadPrereqs(rc, dir) ==
    Returned(<<SystemCall("prefetch", <<"contrib/download_prerequisites">>, rc, dir)>>)

configureBuildIgnoresFailure(gv, r, rc, dir) ==
    LET root == hasRoot(r, dir)
    IN  Returned(<<root, SystemCall("configure", getConfigureCommand(gv, root), rc, dir)>>)

configureBuild(gv, r, rc, dir) ==
    LET root == hasRoot(r, dir)
        conf == SystemCall("configure", getConfigureCommand(gv, root), rc, dir)
    IN  IF ~succeeded(conf) THEN Raised(<<root, conf>>, "Unable to configure the build")
        ELSE Returned(<<root, conf>>)

make(cpuCount, rc, dir) ==
    LET sc == SystemCall("make", <<"make clean && make -j", cpuCount>>, rc, dir)
    IN  IF ~succeeded(sc) THEN Raised(<<sc>>, "compilation via make failed")
        ELSE Returned(<<sc>>)

installStageIgnoresFailure(rc, dir) ==
    Returned(<<SystemCall("makeInstall", <<"make install">>, rc, dir)>>)

installStage(rc, dir) ==
    LET sc == SystemCall("makeInstall", <<"make install">>, rc, dir)
    IN  IF ~succeeded(sc) THEN Raised(<<sc>>, "Unable to install the new gcc")
        ELSE Returned(<<sc>>)

\* the order in which install() and installFromFolder() call the stages
StageAfterSwapped(m, s) ==
    CASE s = "prereqs" -> IF m = "install" THEN "download" ELSE "moveFolder"
      [] s = "download" -> "extract"
      [] s = "extract" -> "cd"
      [] s = "moveFolder" -> "cd"
      [] s = "cd" -> "prefetch"
      [] s = "prefetch" -> "make"
      [] s = "make" -> "configure"
      [] s = "configure" -> "install"
      [] s = "install" -> "done"

StageAfterAlwaysDownloads(m, s) ==
    CASE s = "prereqs" -> "download"
      [] s = "download" -> "extract"
      [] s = "extract" -> "cd"
      [] s = "moveFolder" -> "cd"
      [] s = "cd" -> "prefetch"
      [] s = "prefetch" -> "configure"
      [] s = "configure" -> "make"
      [] s = "make" -> "install"
      [] s = "install" -> "done"

StageAfter(m, s) ==
    CASE s = "prereqs" -> IF m = "install" THEN "download" ELSE "moveFolder"
      [] s = "download" -> "extract"
      [] s = "extract" -> "cd"
      [] s = "moveFolder" -> "cd"
      [] s = "cd" -> "prefetch"
      [] s = "prefetch" -> "configure"
      [] s = "configure" -> "make"
      [] s = "make" -> "install"
      [] s = "install" -> "done"

\* ------------------------------------------------------------ the state
VARIABLES
    pc,          \* where the program is
    arg,         \* the gccVersion argument of GInst(...)
    method,      \* the pipeline called on the installer
    listing,     \* what f.nlst returned
    versions,    \* selectGccVersion: the filtered listing
    choice,      \* selectGccVersion: the last raw_input result
    prompts,     \* selectGccVersion: how often the prompt was shown
    selected,    \* what selectGccVersion returned
    gccVersion,  \* self.gccVersion (NoAttr while the attribute is not set)
    cwd,         \* the working directory of the process
    stages,      \* the stages started so far
    log,         \* the SystemCalls made so far
    error,       \* the exception that ended the program
    folderAt,    \* installFromFolder: where the given source folder is
    rpc,         \* SystemCall._execute: where the runner is
    process,     \* the subprocess: the lines it wrote, whether it exited, its exit code
    returncode,  \* self.process.returncode (<<>> while it is None)
    read,        \* how many lines of the pipe have been read
    output,      \* self.output
    logged       \* the lines given to logger.debug("| %s")

progVars == <<pc, arg, method, listing, versions, choice, prompts, selected, gccVersion,
              cwd, stages, log, error, folderAt>>

runVars == <<rpc, process, returncode, read, output, logged>>

vars == <<progVars, runVars>>

selVars == <<listing, versions, choice, prompts, selected>>

ProgramInit ==
    /\ pc = "start"
    /\ arg = NoArg
    /\ method = "none"
    /\ listing = <<>>
    /\ versions = <<>>
    /\ choice = None
    /\ prompts = 0
    /\ selected = None
    /\ gccVersion = NoAttr
    /\ cwd = <<"?">>
    /\ stages = <<>>
    /\ log = <<>>
    /\ error = "none"
    /\ folderAt = <<"?">>

\* no command is being followed
RunnerIdle ==
    /\ rpc = "idle"
    /\ process = [lines |-> <<>>, exited |-> FALSE, code |-> 0]
    /\ returncode = <<>>
    /\ read = 0
    /\ output = <<>>
    /\ logged = <<>>

Init == ProgramInit /\ RunnerIdle

\* GInst(gccVersion) with a version string or a GccVersion object
GInstInitBind ==
    /\ pc = "start"
    /\ \E a \in BindArgs :
          /\ arg' = a
          /\ gccVersion' = IF a.type = "GccVersion"
                           THEN GccVersion(a.versionString, a.extraConfigureArgs)
                           ELSE GccVersion(a.versionString, <<>>)
    /\ cwd' = THIS_FOLDER
    /\ pc' = "constructed"
    /\ UNCHANGED <<method, selVars, stages, log, error, folderAt, runVars>>

\* GInst(None): selectGccVersion lists the versions and shows the prompt
GInstInitSelect ==
    /\ pc = "start"
    /\ \E l \in Listings :
          /\ listing' = l
          /\ versions' = getPossibleGccVersions(l)
    /\ arg' = NoArg
    /\ cwd' = THIS_FOLDER
    /\ prompts' = 1
    /\ pc' = "prompt"
    /\ UNCHANGED <<method, choice, selected, gccVersion, stages, log, error, folderAt, runVars>>

\* one raw_input of the prompt loop and the iteration it triggers; a
\* returned version ends selectGccVersion and with it GInst.__init__,
\* which keeps the version in its local variable only
RawInput ==
    /\ pc = "prompt"
    /\ \E c \in Lines \cup {Interrupt} :
          LET it == selectIteration(versions, c)
          IN  /\ choice' = c
              /\ CASE it.kind = "return" ->
                        /\ selected' = it.value
                        /\ pc' = "constructed"
                        /\ UNCHANGED <<prompts, error>>
                   [] it.kind = "raise" ->
                        /\ pc' = "raised"
                        /\ error' = it.ex
                        /\ UNCHANGED <<prompts, selected>>
                   [] it.kind = "again" ->
                        /\ prompts < MaxPrompts
                        /\ prompts' = prompts + 1
                        /\ UNCHANGED <<pc, selected, error>>
    /\ UNCHANGED <<arg, method, listing, versions, gccVersion, cwd, stages, log, folderAt, runVars>>

\* g.install() or g.installFromFolder(folder)
Call ==
    /\ pc = "constructed"
    /\ \E m \in {"install", "installFromFolder"} :
          /\ method' = m
          /\ folderAt' = IF m = "installFromFolder" THEN <<"gccFolder">> ELSE folderAt
    /\ pc' = "prereqs"
    /\ UNCHANGED <<arg, selVars, gccVersion, cwd, stages, log, error, runVars>>

\* a stage ran: its calls are logged and it returned or raised
Ran(stage, res) ==
    /\ stages' = Append(stages, stage)
    /\ log' = log \o res.calls
    /\ IF res.err = "none"
       THEN pc' = StageAfter(method, stage) /\ error' = error
       ELSE pc' = "raised" /\ error' = res.err
    /\ UNCHANGED <<arg, method, selVars, gccVersion, runVars>>

GetGInstPreReqs ==
    /\ pc = "prereqs"
    /\ \E r, u, i \in ExitCodes : Ran("prereqs", getGInstPreReqs(r, u, i, cwd))
    /\ UNCHANGED <<cwd, folderAt>>

DownloadSource ==
    /\ pc = "download"
    /\ \E w \in ExitCodes, outs \in [1..Retries -> ExitCodes] :
          Ran("download", downloadSource(gccVersion, w, outs, cwd))
    /\ UNCHANGED <<cwd, folderAt>>

UnCompressSource ==
    /\ pc = "extract"
    /\ \E rc \in ExitCodes : Ran("extract", unCompressSource(rc, cwd))
    /\ UNCHANGED <<cwd, folderAt>>

\* shutil.move(gccFolder, self.gccVersion.getLocalUncompressedSourcePath())
MoveFolder ==
    /\ pc = "moveFolder"
    /\ IF gccVersion = NoAttr
       THEN Ran("moveFolder", Raised(<<>>, "AttributeError")) /\ UNCHANGED folderAt
       ELSE \E moved \in BOOLEAN :
              IF moved
              THEN /\ Ran("moveFolder", Returned(<<>>))
                   /\ folderAt' = getLocalUncompressedSourcePath(gccVersion)
              ELSE /\ Ran("moveFolder", Raised(<<>>, "shutil.Error"))
                   /\ UNCHANGED folderAt
    /\ UNCHANGED <<cwd>>

\* os.chdir(self.gccVersion.getLocalUncompressedSourcePath())
MoveToUncompressedSourceFolder ==
    /\ pc = "cd"
    /\ \E exists \in BOOLEAN :
          IF exists
          THEN /\ Ran("cd", Returned(<<>>))
               /\ cwd' = getLocalUncompressedSourcePath(gccVersion)
          ELSE /\ Ran("cd", Raised(<<>>, "OSError"))
               /\ UNCHANGED <<cwd>>
    /\ UNCHANGED folderAt

CallDownloadPrereqs ==
    /\ pc = "prefetch"
    /\ \E rc \in ExitCodes : Ran("prefetch", callDownloadPrereqs(rc, cwd))
    /\ UNCHANGED <<cwd, folderAt>>

ConfigureBuild ==
    /\ pc = "configure"
    /\ \E r, rc \in ExitCodes : Ran("configure", configureBuild(gccVersion, r, rc, cwd))
    /\ UNCHANGED <<cwd, folderAt>>

Make ==
    /\ pc = "make"
    /\ \E n \in CpuCounts, rc \in ExitCodes : Ran("make", make(n, rc, cwd))
    /\ UNCHANGED <<cwd, folderAt>>

Install ==
    /\ pc = "install"
    /\ \E rc \in ExitCodes : Ran("install", installStage(rc, cwd))
    /\ UNCHANGED <<cwd, folderAt>>

Next ==
    \/ GInstInitBind
    \/ GInstInitSelect
    \/ RawInput
    \/ Call
    \/ GetGInstPreReqs
    \/ DownloadSource
    \/ UnCompressSource
    \/ MoveFolder
    \/ MoveToUncompressedSourceFolder
    \/ CallDownloadPrereqs
    \/ ConfigureBuild
    \/ Make
    \/ Install

Spec == Init /\ [][Next]_vars

\* the steps of install() and installFromFolder(): the program is
\* sequential, so a stage whose commands have ended is followed by the next
PipelineNext ==
    \/ GetGInstPreReqs
    \/ DownloadSource
    \/ UnCompressSource
    \/ MoveFolder
    \/ MoveToUncompressedSourceFolder
    \/ CallDownloadPrereqs
    \/ ConfigureBuild
    \/ Make
    \/ Install

FairSpec == Init /\ [][Next]_vars /\ WF_vars(PipelineNext)

\* ------------------------------------------- SystemCall._execute, alone
\* One command followed from Popen to the end of _execute.  The subprocess
\* writes lines into the pipe and exits on its own schedule; the runner
\* alternates poll() and readline().  A line is kept without its line
\* terminator, as rstrip(os.linesep) leaves it.
MaxLines == 2

OutLines == {<<"a">>, <<"b">>, <<>>}

\* subprocess.Popen(self.cmd, ...): the process runs, nothing is read yet
ExecInit ==
    /\ ProgramInit
    /\ rpc = "poll"
    /\ process = [lines |-> <<>>, exited |-> FALSE, code |-> 0]
    /\ returncode = <<>>
    /\ read = 0
    /\ output = <<>>
    /\ logged = <<>>

\* the subprocess writes one more line to stdout or stderr
ProcessWrite ==
    /\ rpc # "idle"
    /\ ~process.exited
    /\ Len(process.lines) < MaxLines
    /\ \E l \in OutLines : process' = [process EXCEPT !.lines = Append(@, l)]
    /\ UNCHANGED <<rpc, returncode, read, output, logged, progVars>>

\* the subprocess exits; its end of the pipe is closed
ProcessExit ==
    /\ rpc # "idle"
    /\ ~process.exited
    /\ \E c \in ExitCodes : process' = [process EXCEPT !.exited = TRUE, !.code = c]
    /\ UNCHANGED <<rpc, returncode, read, output, logged, progVars>>

\* self.process.poll(), reached because returncode is None
Poll ==
    /\ rpc = "poll"
    /\ returncode' = IF process.exited THEN <<process.code>> ELSE returncode
    /\ rpc' = "readline"
    /\ UNCHANGED <<process, read, output, logged, progVars>>

\* the line readline() hands over: the next unread line, or '' at the end
\* of a closed pipe
NextLine(lines, n) == IF n < Len(lines) THEN lines[n + 1] ELSE <<>>

\* readline() returns (it waits while the pipe is empty and open); the
\* line is logged and appended, and the loop test is made again
Readline ==
    /\ rpc = "readline"
    /\ read < Len(process.lines) \/ process.exited
    /\ LET line == NextLine(process.lines, read)
       IN  /\ read' = IF read < Len(process.lines) THEN read + 1 ELSE read
           /\ logged' = Append(logged, line)
           /\ output' = output \o line
    /\ rpc' = IF returncode = <<>> THEN "poll" ELSE "done"
    /\ UNCHANGED <<process, returncode, progVars>>

ExecNext ==
    \/ ProcessWrite
    \/ ProcessExit
    \/ Poll
    \/ Readline

ExecSpec == ExecInit /\ [][ExecNext]_vars

\* the finished SystemCall object: self.retCode = self.process.returncode
Finished == SystemCall("run", <<"cmd">>, returncode[1], <<"?">>)

\* ------------------------------------------------------------ properties
CallsOf(c) == {i \in 1..Len(log) : log[i].call = c}

FailedCallsOf(c) == {i \in CallsOf(c) : log[i].retCode # 0}

LastStage == IF stages = <<>> THEN "none" ELSE stages[Len(stages)]

\* C1: in install(), a non-zero exit of extraction, configure or make is
\* the last command the program runs: install() raises at once, and make
\* install is never run after a configure or make failure.
FatalStageAborts ==
    method = "install" =>
        /\ \A i \in FailedCallsOf("tar") \cup FailedCallsOf("configure") \cup FailedCallsOf("make") :
              /\ i = Len(log)
              /\ pc = "raised"
              /\ error # "none"
        /\ (FailedCallsOf("configure") \cup FailedCallsOf("make") # {}) => CallsOf("makeInstall") = {}

FatalStageAbortsWitness ==
    /\ method = "install"
    /\ pc = "raised"
    /\ LastStage = "make"
    /\ FailedCallsOf("make") # {}
    /\ CallsOf("configure") # {}

InstallOrder ==
    <<"prereqs", "download", "extract", "cd", "prefetch", "configure", "make", "install">>

\* the stage a logged command belongs to (the privilege probe is made by
\* two stages and is left out)
StageIndexOfCall(c) ==
    CASE c \in {"aptUpdate", "aptInstall"} -> 1
      [] c \in {"which", "curl"} -> 2
      [] c = "tar" -> 3
      [] c = "prefetch" -> 5
      [] c = "configure" -> 6
      [] c = "make" -> 7
      [] c = "makeInstall" -> 8

\* the success of a stage whose failure is fatal, read from the commands
StageSucceeded(st) ==
    CASE st = "prereqs" -> FailedCallsOf("aptUpdate") \cup FailedCallsOf("aptInstall") = {}
      [] st = "download" -> CallsOf("curl") \ FailedCallsOf("curl") # {}
      [] st = "extract" -> CallsOf("tar") \ FailedCallsOf("tar") # {}
      [] st = "configure" -> CallsOf("configure") \ FailedCallsOf("configure") # {}
      [] st = "make" -> CallsOf("make") \ FailedCallsOf("make") # {}
      [] st = "install" -> CallsOf("makeInstall") \ FailedCallsOf("makeInstall") # {}
      [] OTHER -> TRUE

\* C2: install() starts its stages in the order prerequisites, download,
\* extract, change directory, prefetch, configure, make, install: the
\* stages started are a prefix of that order (none twice, none skipped),
\* the commands of a stage all precede those of the next, the end is
\* reached only after all eight, and every stage before the last started
\* one has succeeded.
StagesInOrder ==
    method = "install" =>
        /\ Len(stages) <= Len(InstallOrder)
        /\ \A i \in 1..Len(stages) : stages[i] = InstallOrder[i]
        /\ \A i, j \in 1..Len(log) :
              (i < j /\ log[i].call # "hasRoot" /\ log[j].call # "hasRoot")
                  => StageIndexOfCall(log[i].call) <= StageIndexOfCall(log[j].call)
        /\ \A i \in 1..(Len(stages) - 1) : StageSucceeded(stages[i])
        /\ pc = "done" => (stages = InstallOrder /\ StageSucceeded("install"))
        /\ pc \notin {"done", "raised"} => pc = InstallOrder[Len(stages) + 1]

StagesInOrderWitness ==
    /\ method = "install"
    /\ pc = "done"
    /\ Len(log) >= 8

\* C3: whatever contrib/download_prerequisites exits with, the prefetch
\* stage raises nothing and hands over to configure, in install() and in
\* installFromFolder() alike; the pipeline can still reach its end.
PrefetchNeverAborts ==
    /\ LastStage = "prefetch" => (pc = "configure" /\ error = "none")
    /\ \A i \in CallsOf("prefetch") : i = Len(log) => pc = "configure"

PrefetchNeverAbortsWitness ==
    /\ method = "installFromFolder"
    /\ pc = "done"
    /\ FailedCallsOf("prefetch") # {}
    /\ CallsOf("makeInstall") # {}

\* C4: with the download utility available, the download stage succeeds
\* exactly when one of its attempts exited with zero, and raises the
\* download failure exactly when it made 5 attempts that all failed.
DownloadSucceedsIffAnyAttempt ==
    (\E i \in 1..Len(stages) : stages[i] = "download")
        /\ CallsOf("which") \ FailedCallsOf("which") # {}
    =>  /\ (~(pc = "raised" /\ LastStage = "download"))
              <=> (CallsOf("curl") \ FailedCallsOf("curl") # {})
        /\ (error = "Failed to wget the gcc source")
              <=> (Cardinality(CallsOf("curl")) = 5 /\ FailedCallsOf("curl") = CallsOf("curl"))
        /\ Cardinality(CallsOf("curl")) <= 5

DownloadSucceedsIffAnyAttemptWitness ==
    /\ pc = "extract"
    /\ Cardinality(CallsOf("curl")) = 3
    /\ Cardinality(FailedCallsOf("curl")) = 2

\* C5: every configure command is run with the build directory
\* getLocalBuildPath() as working directory, and so are make and make
\* install.
ConfigureRunsInBuildDirectory ==
    \A i \in CallsOf("configure") \cup CallsOf("make") \cup CallsOf("makeInstall") :
        log[i].cwd = getLocalBuildPath(gccVersion)

\* C6: once constructed, the installer holds a version descriptor, and
\* after an interactive selection it is the selected version.
ConstructedHoldsVersion ==
    pc \notin {"start", "prompt"} /\ ~(pc = "raised" /\ stages = <<>>)
    =>  /\ gccVersion # NoAttr
        /\ arg.type = "None" => gccVersion.rawVersionString = selected

\* C7: a numeric input outside 1..N returns no version and leaves the
\* program at the prompt.
OutOfRangeIgnored ==
    (choice \notin {None, Interrupt} /\ IsInt(choice) /\ int(choice) \notin 1..Len(versions))
    =>  /\ selected = None
        /\ pc = "prompt"

\* the listing positions whose entry carries a version
Matching == {j \in 1..Len(listing) : GCC_FTP_REGEX(listing[j]) # <<>>}

\* C8: a numeric input k in 1..N, N the number of listing entries that
\* carry a version, ends the prompt and returns the version of the k-th
\* such entry in listing order.
ValidIndexReturnsKth ==
    (choice \notin {None, Interrupt} /\ IsInt(choice) /\ int(choice) \in 1..Cardinality(Matching))
    =>  /\ pc \notin {"prompt", "start"}
        /\ \E j \in Matching :
              /\ Cardinality({i \in Matching : i <= j}) = int(choice)
              /\ selected = SubSeq(listing[j], 3, Len(listing[j]))

ValidIndexReturnsKthWitness ==
    /\ pc = "constructed"
    /\ prompts >= 2
    /\ Len(listing) = 2
    /\ Matching = {1, 2}
    /\ listing[1] # listing[2]
    /\ choice = <<"2">>
    /\ selected = SubSeq(listing[2], 3, Len(listing[2]))

\* C9: "q" and an interrupt end the program from the prompt with
\* SystemExit and KeyboardInterrupt, at any iteration; no version is
\* returned and the prompt is not shown again.
QuitAndInterruptAbort ==
    /\ choice = <<"q">> => (pc = "raised" /\ error = "SystemExit" /\ selected = None)
    /\ choice = Interrupt => (pc = "raised" /\ error = "KeyboardInterrupt" /\ selected = None)

QuitAndInterruptAbortWitness ==
    /\ choice = <<"q">>
    /\ prompts >= 2
    /\ pc = "raised"

NonNumeric == choice \notin {None, Interrupt, <<"q">>} /\ ~IsInt(choice)

\* C10 as stated: an input that is neither "q" nor an integer ends the
\* selection with a fatal error.
NonNumericIsFatal == NonNumeric => (pc = "raised" /\ error # "none")

\* C10 amended: an input that is neither "q" nor an integer is dropped:
\* no error leaves the selection, no version is returned, and the program
\* is at the prompt again.
NonNumericReprompts ==
    NonNumeric => (pc = "prompt" /\ error = "none" /\ selected = None /\ prompts >= 2)

NonNumericRepromptsWitness ==
    /\ choice = <<"x">>
    /\ pc = "prompt"
    /\ prompts = 2

\* C11: the availability check comes before every download attempt, a
\* failed check raises its own error with no attempt made, and the
\* utility that is checked is the utility the attempts run.
DownloadUtilityChecked ==
    /\ \A i \in CallsOf("curl") :
          \E j \in CallsOf("which") :
              /\ j < i
              /\ log[j].retCode = 0
              /\ log[j].cmd[2] = log[i].cmd[1]
    /\ FailedCallsOf("which") # {} =>
          /\ CallsOf("curl") = {}
          /\ pc = "raised"
          /\ error = "wget was unavailable to download the gcc source"

\* C12: package commands follow a successful privilege probe only: the
\* refresh right after it and the install right after a successful
\* refresh; a failing package command is the last command and raises;
\* after a failed probe the stage made no other call and the next stage
\* is due.
PrereqsOnlyWithRoot ==
    /\ \A i \in CallsOf("aptUpdate") :
          i = 2 /\ log[1].call = "hasRoot" /\ log[1].retCode = 0
    /\ \A i \in CallsOf("aptInstall") :
          i = 3 /\ log[2].call = "aptUpdate" /\ log[2].retCode = 0
    /\ \A i \in FailedCallsOf("aptUpdate") \cup FailedCallsOf("aptInstall") :
          /\ i = Len(log)
          /\ pc = "raised"
          /\ error \in {"Failed to apt-get update/upgrade", "Failed to get GInst prereqs"}
          /\ stages = <<"prereqs">>
    /\ stages # <<>> =>
          /\ log[1].call = "hasRoot"
          /\ log[1].retCode = 0 => (Len(log) >= 2 /\ log[2].call = "aptUpdate")
          /\ (log[1].retCode = 0 /\ log[2].retCode = 0)
                => (Len(log) >= 3 /\ log[3].call = "aptInstall")
          /\ (log[1].retCode # 0 /\ stages = <<"prereqs">>)
                => /\ Len(log) = 1
                   /\ error = "none"
                   /\ pc = IF method = "install" THEN "download" ELSE "moveFolder"

PrereqsOnlyWithRootWitness ==
    /\ pc = "raised"
    /\ stages = <<"prereqs">>
    /\ Len(log) = 3
    /\ log[1].retCode = 0
    /\ log[2].retCode = 0
    /\ log[3].call = "aptInstall"
    /\ log[3].retCode # 0

FolderOrder ==
    <<"prereqs", "moveFolder", "cd", "prefetch", "configure", "make", "install">>

\* C13: installFromFolder() starts its stages in the order prerequisites,
\* relocation, change directory, prefetch, configure, make, install, each
\* after the success of the ones before; it makes no download and no
\* extraction call; the relocation puts the given folder at the expected
\* source path, which is the directory the later stages run in.
FolderPipelineOrder ==
    method = "installFromFolder" =>
        /\ Len(stages) <= Len(FolderOrder)
        /\ \A i \in 1..Len(stages) : stages[i] = FolderOrder[i]
        /\ CallsOf("which") \cup CallsOf("curl") \cup CallsOf("tar") = {}
        /\ \A i, j \in 1..Len(log) :
              (i < j /\ log[i].call # "hasRoot" /\ log[j].call # "hasRoot")
                  => StageIndexOfCall(log[i].call) <= StageIndexOfCall(log[j].call)
        /\ \A i \in 1..(Len(stages) - 1) : StageSucceeded(stages[i])
        /\ pc = "done" => (stages = FolderOrder /\ StageSucceeded("install"))
        /\ pc \notin {"done", "raised"} => pc = FolderOrder[Len(stages) + 1]
        /\ Len(stages) <= 1 => folderAt = <<"gccFolder">>
        /\ Len(stages) >= 3 => folderAt = getLocalUncompressedSourcePath(gccVersion)
        /\ Len(stages) >= 4 => cwd = folderAt

FolderPipelineOrderWitness ==
    /\ method = "installFromFolder"
    /\ pc = "done"
    /\ stages = FolderOrder
    /\ cwd = folderAt

\* every step that can end the run of the entry point has been made and
\* has succeeded
AllFatalStepsSucceeded ==
    /\ log # <<>>
    /\ log[1].retCode = 0 =>
          /\ CallsOf("aptUpdate") \ FailedCallsOf("aptUpdate") # {}
          /\ CallsOf("aptInstall") \ FailedCallsOf("aptInstall") # {}
    /\ CallsOf("which") \ FailedCallsOf("which") # {}
    /\ CallsOf("curl") \ FailedCallsOf("curl") # {}
    /\ CallsOf("tar") \ FailedCallsOf("tar") # {}
    /\ CallsOf("configure") \ FailedCallsOf("configure") # {}
    /\ CallsOf("make") \ FailedCallsOf("make") # {}
    /\ CallsOf("makeInstall") \ FailedCallsOf("makeInstall") # {}

\* C14: a run of the entry point (a version string, then install()) is
\* at its successful end exactly when the package commands (with root),
\* the utility check, a download attempt, extraction, configure, make and
\* make install have all succeeded; a run that ended otherwise ended by an
\* error; the exit code of the prefetch helper plays no part.
EntryPointSuccessIff ==
    (arg.type = "str" /\ method = "install") =>
        /\ pc = "done" <=> AllFatalStepsSucceeded
        /\ pc = "raised" <=> error # "none"
        /\ (FailedCallsOf("makeInstall") # {} \/ FailedCallsOf("make") # {}) => pc = "raised"

EntryPointSuccessIffWitness ==
    /\ arg.type = "str"
    /\ method = "install"
    /\ pc = "done"
    /\ FailedCallsOf("prefetch") # {}
    /\ log[1].retCode = 0

\* C15: when _execute has returned, succeeded() holds exactly when the
\* subprocess exited with 0 and failed() exactly when it exited with
\* anything else, whatever lines it wrote.
RunnerReportsExitCode ==
    rpc = "done" =>
        /\ process.exited
        /\ returncode # <<>>
        /\ succeeded(Finished) <=> process.code = 0
        /\ failed(Finished) <=> process.code # 0

RunnerReportsExitCodeWitness ==
    /\ rpc = "done"
    /\ process.code # 0
    /\ Len(process.lines) = 2
    /\ output # <<>>

\* where a token first stands in a command
PosOf(cmd, tok) == CHOOSE p \in 1..Len(cmd) : cmd[p] = tok /\ \A q \in 1..(p - 1) : cmd[q] # tok

\* C16: the configure command is built right after a privilege probe, and
\* its prefix starts with /usr/local/ when that probe exited with 0 and
\* with the home directory when it did not, for every version and every
\* extra arguments.
PrefixFollowsProbe ==
    \A i \in CallsOf("configure") :
        /\ i > 1
        /\ log[i - 1].call = "hasRoot"
        /\ LET cmd == log[i].cmd
               p == PosOf(cmd, " --prefix=")
           IN  /\ cmd[p + 1] = IF log[i - 1].retCode = 0 THEN "/usr/local/" ELSE "~/"
               /\ cmd[p + 2] = "gcc-"

PrefixFollowsProbeWitness ==
    \E i \in CallsOf("configure") :
        /\ log[i - 1].retCode # 0
        /\ log[1].retCode = 0
        /\ log[i].cmd[PosOf(log[i].cmd, " --prefix=") + 1] = "~/"
        /\ gccVersion.extraConfigureArgs # <<>>

ConfigureFixedFlags(cmd) ==
    /\ \E p \in 1..Len(cmd) : cmd[p] = " --build=x86_64-linux-gnu"
    /\ \E p \in 1..Len(cmd) : cmd[p] = " --host=x86_64-linux-gnu"
    /\ \E p \in 1..Len(cmd) : cmd[p] = " --target=x86_64-linux-gnu"
    /\ \E p \in 1..Len(cmd) : cmd[p] = " --enable-languages=c,c++"
    /\ \E p \in 1..Len(cmd) : cmd[p] = " --program-suffix="

\* C17 as stated: every configure command has the x86_64-linux-gnu triple
\* and the c,c++ flag, the value of --program-suffix is the version
\* string, and the extra arguments end the command.
ProgramSuffixIsVersion ==
    \A i \in CallsOf("configure") :
        LET cmd == log[i].cmd
            v == gccVersion.rawVersionString
            x == gccVersion.extraConfigureArgs
            q == PosOf(cmd, " --program-suffix=")
        IN  /\ ConfigureFixedFlags(cmd)
            /\ SubSeq(cmd, q + 1, q + Len(v)) = v
            /\ cmd[q + Len(v) + 1] = " "
            /\ SubSeq(cmd, Len(cmd) - Len(x) + 1, Len(cmd)) = x

\* C17 amended: the value of --program-suffix is a hyphen followed by the
\* version string; after it come one blank and the extra arguments, which
\* end the command.
ProgramSuffixIsDashVersion ==
    \A i \in CallsOf("configure") :
        LET cmd == log[i].cmd
            v == gccVersion.rawVersionString
            x == gccVersion.extraConfigureArgs
            q == PosOf(cmd, " --program-suffix=")
        IN  /\ ConfigureFixedFlags(cmd)
            /\ Len(cmd) = q + 2 + Len(v) + Len(x)
            /\ cmd[q + 1] = "-"
            /\ SubSeq(cmd, q + 2, q + 1 + Len(v)) = v
            /\ cmd[q + 2 + Len(v)] = " "
            /\ SubSeq(cmd, q + 3 + Len(v), Len(cmd)) = x

ProgramSuffixIsDashVersionWitness ==
    \E i \in CallsOf("configure") :
        /\ gccVersion.rawVersionString = V1220
        /\ gccVersion.extraConfigureArgs = <<"--disable-nls">>
        /\ log[i].cmd[Len(log[i].cmd)] = "--disable-nls"

RECURSIVE JoinLines(_)
JoinLines(ls) ==
    IF ls = <<>> THEN <<>>
    ELSE IF Len(ls) = 1 THEN ls[1]
    ELSE ls[1] \o <<"\n">> \o JoinLines(Tail(ls))

\* C18: when _execute has returned, every line the subprocess wrote has
\* been logged, in order, and the captured output is those lines joined
\* by newlines.
FullOutputCaptured ==
    rpc = "done" =>
        /\ read = Len(process.lines)
        /\ Len(logged) >= Len(process.lines)
        /\ \A i \in 1..Len(process.lines) : logged[i] = process.lines[i]
        /\ output = JoinLines(process.lines)

\* the number that the first successful download attempt has among the
\* attempts (5 if none succeeded)
FirstSuccess ==
    LET curls == CallsOf("curl")
        ok == curls \ FailedCallsOf("curl")
    IN  IF ok = {} THEN 5
        ELSE LET f == CHOOSE i \in ok : \A k \in ok : i <= k
             IN  Cardinality({i \in curls : i <= f})

\* C19: once the utility check has succeeded, the download stage has run
\* exactly min(j, 5) download commands, j the number of the first
\* successful attempt (5 if none), none after a success, and all of them
\* the same command on the source URL and the archive path.
DownloadAttemptCount ==
    ((\E i \in 1..Len(stages) : stages[i] = "download")
        /\ CallsOf("which") \ FailedCallsOf("which") # {})
    =>  /\ Cardinality(CallsOf("curl")) = IF FirstSuccess < 5 THEN FirstSuccess ELSE 5
        /\ \A i, k \in CallsOf("curl") : (i < k) => log[i].retCode # 0
        /\ \A i \in CallsOf("curl") :
              log[i].cmd = <<"curl", " -L ">> \o getSourceUrl(gccVersion) \o <<" -k > ">>
                              \o GCC_LOCAL_COMPRESSED_SOURCE_PATH

\* the most commands one call of install() can run: the privilege probe
\* and two package commands, the utility check and five attempts, tar, the
\* prefetch helper, the second probe and configure, make, make install
MaxCommands == 3 + (1 + 5) + 1 + 1 + 2 + 1 + 1

\* C20: once install() or installFromFolder() is called it reaches its end
\* or raises, and it never runs more than 15 commands.
PipelineTerminates ==
    /\ [](Len(log) <= MaxCommands)
    /\ (pc = "prereqs") ~> (pc \in {"done", "raised"})

PipelineTerminatesWitness ==
    /\ pc = "done"
    /\ Len(log) = MaxCommands

====
